---- MODULE Spec2Model ----
(***************************************************************************)
(* Multi-source price / LP-pool consensus of livealittle-defi-backend:     *)
(*   src/backend/multi_source_data_aggregator.py                           *)
(*   src/backend/lp_pair_data_aggregator.py                                *)
(*   src/backend/data_quality_monitor.py                                   *)
(*                                                                         *)
(* Numbers.  The code works on Python floats.  Here every amount (price,   *)
(* TVL, APY, volume) is a fixed-point integer counting eighths of a unit,  *)
(* and every amount a provider reports is a whole number of units (a       *)
(* multiple of 8), so that the divisions by 2 (median), by 4 (quartiles)   *)
(* and the factor 1.5 of the code are exact integer operations.  A         *)
(* standard deviation is kept as its square: the sample variance, in whole *)
(* units, as the fraction num/den.                                         *)
(***************************************************************************)
EXTENDS Integers, Sequences, FiniteSets, TLC

VARIABLES
    now,            \* int(time.time()), seconds
    engine_input,   \* the list a caller hands to ConsensusEngine.calculate_consensus
    engine_calls,   \* the last two calls of it: [input, result]
    lp_input,       \* the list a caller hands to LPConsensusEngine.calculate_consensus
    lp_calls,       \* the last two calls of it: [input, result]
    sources,        \* MultiSourceAggregator.sources: name -> last_update, is_available, error_count
    pc,             \* get_consensus_price: "idle", or "fetching" inside fetch_all_sources
    token,          \* the token of the round in progress
    started,        \* when the fetch_price tasks of the round sent their requests
    results,        \* what each fetch_price task of the round has returned so far
    datapoints,     \* the data points of the last completed round, validated
    consensus,      \* what the last completed get_consensus_price returned
    lp_sources,     \* LPPairDataAggregator.sources: name -> last_update, is_available, error_count
    lp_datapoints,  \* the pool data points of the last get_consensus_pool_data, validated
    lp_consensus,   \* what the last get_consensus_pool_data returned
    price_histories,\* AnomalyDetector.price_histories: token -> list of price, timestamp
    alerts,         \* AnomalyDetector.alerts
    mon_input,      \* the arguments a caller hands to the monitor: token, consensus, datapoints, sources
    mon_call,       \* the last call on the monitor: its name, arguments and return value
    pool_histories, \* LPAnomalyDetector.pool_histories: pool_id -> LPPoolHistory
    lp_alerts,      \* LPAnomalyDetector.alerts
    pool_call,      \* the last call on the LP detector: its name, arguments and return value
    rounds,         \* concurrent get_consensus_price calls: caller -> position, token, fetch_price tasks
    metrics         \* what the last get_data_quality_metrics returned

engineVars == <<engine_input, engine_calls, lp_input, lp_calls>>

priceVars == <<sources, pc, token, started, results, datapoints, consensus>>

lpVars == <<lp_sources, lp_datapoints, lp_consensus>>

monVars == <<price_histories, alerts, mon_input, mon_call>>

poolVars == <<pool_histories, lp_alerts, pool_call>>

roundVars == <<rounds, metrics>>

vars == <<now, engineVars, priceVars, lpVars, monVars, poolVars, roundVars>>

(* ------------------------------ bounds -------------------------------- *)

\* longest list handed to the price engine in SpecEngine
MaxPoints == 6
\* longest list handed to an engine in SpecRepeat
MaxRepeatPoints == 3
\* seconds the clock may advance
MaxElapsed == 61
\* failures a source may count
MaxErrorCount == 3
\* seconds the clock may advance while requests are in flight
MaxWait == 11
\* prices a token's history may hold before the model stops adding to it
MaxHistory == 3
\* alerts the log may hold before the model stops calling the detector
MaxAlerts == 2
\* longest list of sources or data points handed to the monitor
MaxMonList == 4
\* seconds the clock of the alert log may advance
MaxLogElapsed == 3601

\* the clock advances in steps that straddle the 60 s staleness bound
TickSteps == {60, 61}

(* ---------------------------- fixed point ------------------------------ *)

FP(units) == units * 8

Whole(x) == x \div 8

\* Python's None
None == [kind |-> "None"]

(* ------------------------------ helpers -------------------------------- *)

\* sorted(data)
Sorted(data) == SortSeq(data, LAMBDA a, b: a < b)

RECURSIVE SumSeq(_)
SumSeq(s) == IF s = <<>> THEN 0 ELSE Head(s) + SumSeq(Tail(s))

\* mutant: the arithmetic mean in place of the median
median_as_mean(xs) == SumSeq(xs) \div Len(xs)

\* mutant: statistics.median_high, the upper middle element of an even list
median_as_high(xs) ==
    LET data == Sorted(xs)
    IN  data[(Len(data) \div 2) + 1]

\* mutant: the middle of the list as given, without sorting it
median_unsorted(xs) ==
    LET n == Len(xs)
    IN  IF n % 2 = 1
        THEN xs[(n + 1) \div 2]
        ELSE (xs[n \div 2] + xs[(n \div 2) + 1]) \div 2

\* statistics.median: the middle element, or the mean of the two middle ones
median(xs) ==
    LET data == Sorted(xs)
        n == Len(data)
    IN  IF n % 2 = 1
        THEN data[(n + 1) \div 2]
        ELSE (data[n \div 2] + data[(n \div 2) + 1]) \div 2

\* mutant: an index slip that takes the second cut point (the median) as Q3
quantiles_q3_slip(xs) ==
    LET data == Sorted(xs)
        ld == Len(data)
        m == ld + 1
        cut(i) ==
            LET j0 == (i * m) \div 4
                j == IF j0 < 1 THEN 1 ELSE IF j0 > ld - 1 THEN ld - 1 ELSE j0
                delta == i * m - j * 4
            IN  (data[j] * (4 - delta) + data[j + 1] * delta) \div 4
    IN  <<cut(1), cut(2), cut(2)>>

\* statistics.quantiles(data, n=4), method 'exclusive' (the default)
quantiles(xs) ==
    LET data == Sorted(xs)
        ld == Len(data)
        m == ld + 1
        cut(i) ==
            LET j0 == (i * m) \div 4
                j == IF j0 < 1 THEN 1 ELSE IF j0 > ld - 1 THEN ld - 1 ELSE j0
                delta == i * m - j * 4
            IN  (data[j] * (4 - delta) + data[j + 1] * delta) \div 4
    IN  <<cut(1), cut(2), cut(3)>>

\* statistics.stdev, as the sample variance it is the root of:
\* sum of squared deviations / (n - 1) = sum over pairs (xi - xj)^2 / (n (n - 1))
stdev(xs) ==
    LET n == Len(xs)
        sq(i, j) == (Whole(xs[i]) - Whole(xs[j])) * (Whole(xs[i]) - Whole(xs[j]))
        pairs == [k \in 1..(n * n) |->
                    LET i == ((k - 1) \div n) + 1
                        j == ((k - 1) % n) + 1
                    IN  IF i < j THEN sq(i, j) ELSE 0]
    IN  [num |-> SumSeq(pairs), den |-> n * (n - 1)]

\* the literal 0 the code uses for the dispersion of fewer than 2 values
ZeroDev == [num |-> 0, den |-> 1]

(* ------------------------------ DataPoint ------------------------------ *)

DataPoint(source, tok, price, timestamp) ==
    [source |-> source, token |-> tok, price |-> price, timestamp |-> timestamp,
     is_valid |-> TRUE, validation_errors |-> <<>>]

\* mutant: a price above the sanity ceiling is rejected instead of logged
validate_datapoint_hard_ceiling(dp, current_time) ==
    IF current_time - dp.timestamp > 60
    THEN [dp EXCEPT !.is_valid = FALSE,
                    !.validation_errors = Append(@, "Timestamp too old")]
    ELSE IF dp.price <= 0 \/ dp.price > 1000000 * 8
    THEN [dp EXCEPT !.is_valid = FALSE,
                    !.validation_errors = Append(@, "Invalid price (<=0)")]
    ELSE dp

\* DataValidator.validate_datapoint: the data point as it leaves the call
\* (a price above 1000000 is only logged)
validate_datapoint(dp, current_time) ==
    IF current_time - dp.timestamp > 60
    THEN [dp EXCEPT !.is_valid = FALSE,
                    !.validation_errors = Append(@, "Timestamp too old")]
    ELSE IF dp.price <= 0
    THEN [dp EXCEPT !.is_valid = FALSE,
                    !.validation_errors = Append(@, "Invalid price (<=0)")]
    ELSE dp

(* --------------------------- ConsensusEngine --------------------------- *)

\* len([dp for dp in datapoints if dp.is_valid])
NumValid(dps) == Cardinality({ i \in DOMAIN dps : dps[i].is_valid })

\* mutant: every data point counts as valid
valid_points_unchecked(dps) == dps

\* valid_points = [dp for dp in datapoints if dp.is_valid]
valid_points(dps) == SelectSeq(dps, LAMBDA dp: dp.is_valid)

\* the IQR step on at least 3 prices, with its fall-back to the whole list
filter_outliers(prices) ==
    LET q == quantiles(prices)
        q1 == q[1]
        q3 == q[3]
        iqr == q3 - q1
        lower_bound == q1 - (3 * iqr) \div 2
        upper_bound == q3 + (3 * iqr) \div 2
        filtered_prices ==
            SelectSeq(prices, LAMBDA p: lower_bound <= p /\ p <= upper_bound)
    IN  IF Len(filtered_prices) < 2 THEN prices ELSE filtered_prices

\* mutant: the estimate taken from the unfiltered prices
calculate_consensus_raw_median(dps, t) ==
    IF dps = <<>> THEN None
    ELSE
    LET vp == valid_points(dps) IN
    IF Len(vp) < 2 THEN None
    ELSE
    LET prices == [i \in 1..Len(vp) |-> vp[i].price]
        filtered_prices == IF Len(prices) >= 3 THEN filter_outliers(prices) ELSE prices
    IN  [price |-> median(prices),
         std_dev |-> IF Len(filtered_prices) > 1 THEN stdev(filtered_prices) ELSE ZeroDev,
         data_points |-> Len(vp),
         filtered_points |-> Len(filtered_prices),
         sources |-> [i \in 1..Len(vp) |-> vp[i].source],
         timestamp |-> t]

\* mutant: the engine checks the age of the points again at the time of the call
calculate_consensus_revalidating(dps, t) ==
    IF dps = <<>> THEN None
    ELSE
    LET vp == SelectSeq(dps, LAMBDA dp: dp.is_valid /\ t - dp.timestamp <= 60) IN
    IF Len(vp) < 2 THEN None
    ELSE
    LET prices == [i \in 1..Len(vp) |-> vp[i].price]
        filtered_prices == IF Len(prices) >= 3 THEN filter_outliers(prices) ELSE prices
    IN  [price |-> median(filtered_prices),
         std_dev |-> IF Len(filtered_prices) > 1 THEN stdev(filtered_prices) ELSE ZeroDev,
         data_points |-> Len(vp),
         filtered_points |-> Len(filtered_prices),
         sources |-> [i \in 1..Len(vp) |-> vp[i].source],
         timestamp |-> t]

\* ConsensusEngine.calculate_consensus, called at time t
calculate_consensus(dps, t) ==
    IF dps = <<>> THEN None
    ELSE
    LET vp == valid_points(dps) IN
    IF Len(vp) < 2 THEN None
    ELSE
    LET prices == [i \in 1..Len(vp) |-> vp[i].price]
        filtered_prices == IF Len(prices) >= 3 THEN filter_outliers(prices) ELSE prices
    IN  [price |-> median(filtered_prices),
         std_dev |-> IF Len(filtered_prices) > 1 THEN stdev(filtered_prices) ELSE ZeroDev,
         data_points |-> Len(vp),
         filtered_points |-> Len(filtered_prices),
         sources |-> [i \in 1..Len(vp) |-> vp[i].source],
         timestamp |-> t]

(* ----------------------------- DataSource ------------------------------ *)

\* DataSource.__init__ / LPDataSource.__init__
DataSource == [last_update |-> 0, is_available |-> TRUE, error_count |-> 0]

\* MultiSourceAggregator.__init__: self.sources, in this order
SourceOrder == <<"coingecko", "defillama", "binance">>

SourceNames == { SourceOrder[i] : i \in DOMAIN SourceOrder }

Tokens == {"BTC", "ETH"}

\* the tokens a source can look up (Binance builds the symbol of any token)
token_map(name) ==
    IF name = "coingecko" THEN {"BTC", "ETH", "USDC", "USDT", "DAI"}
    ELSE IF name = "defillama" THEN {"ETH", "USDC", "USDT", "DAI"}
    ELSE Tokens

\* What the provider does with one request:
\*   "ok"      status 200 and a price (DefiLlama: and a timestamp) that parses
\*   "status"  a status other than 200
\*   "empty"   status 200 but the price (DefiLlama: or the timestamp) missing or 0
\*   "raise"   the request or the JSON decoding raises (timeout, connection, ...)
\*   "garbled" status 200 and a price present, but float() (DefiLlama: or
\*             int(timestamp)) raises on it
Responses(name, t) ==
    { [kind |-> "ok", price |-> p, timestamp |-> ts] :
        p \in {FP(100), FP(101), FP(-1)},
        ts \in IF name = "defillama" THEN {t, t - 61} ELSE {t} }
    \cup { [kind |-> k] : k \in {"status", "empty", "raise", "garbled"} }

\* mutant: an increment on top of an earlier failure is lost
count_error_lost(self) ==
    [self EXCEPT !.error_count = 1,
                 !.is_available = IF self.error_count + 1 >= 3 THEN FALSE ELSE @]

\* the except branch of fetch_price
count_error(self) ==
    [self EXCEPT !.error_count = self.error_count + 1,
                 !.is_available = IF self.error_count + 1 >= 3 THEN FALSE ELSE @]

\* the three assignments of fetch_price once the price is there
mark_success(self, t) ==
    [self EXCEPT !.last_update = t, !.is_available = TRUE, !.error_count = 0]

\* mutant: the success path forgets to reset error_count
fetch_price_no_reset(name, self, tok, resp, t) ==
    IF tok \notin token_map(name) THEN [self |-> self, result |-> None]
    ELSE IF resp.kind = "raise" THEN [self |-> count_error(self), result |-> None]
    ELSE IF resp.kind \in {"status", "empty"} THEN [self |-> self, result |-> None]
    ELSE IF resp.kind = "garbled"
    THEN [self |-> count_error(mark_success(self, t)), result |-> None]
    ELSE [self |-> [self EXCEPT !.last_update = t, !.is_available = TRUE],
          result |-> DataPoint(name, tok, resp.price,
                               IF name = "defillama" THEN resp.timestamp ELSE t)]

\* CoinGeckoSource / DefiLlamaSource / BinanceSource .fetch_price at time t:
\* the source's state after the call and what the call returns
fetch_price(name, self, tok, resp, t) ==
    IF tok \notin token_map(name) THEN [self |-> self, result |-> None]
    ELSE IF resp.kind = "raise" THEN [self |-> count_error(self), result |-> None]
    ELSE IF resp.kind \in {"status", "empty"} THEN [self |-> self, result |-> None]
    ELSE IF resp.kind = "garbled"
    THEN [self |-> count_error(mark_success(self, t)), result |-> None]
    ELSE [self |-> mark_success(self, t),
          result |-> DataPoint(name, tok, resp.price,
                               IF name = "defillama" THEN resp.timestamp ELSE t)]

\* aiohttp.ClientTimeout(total=10): seconds a request may take, body included
ClientTimeoutTotal == 10

\* mutant: the request is sent without a timeout
timed_out_never(sent, t) == FALSE

\* the request sent at time sent has run into its timeout at time t, and
\* session.get or response.json() raises asyncio.TimeoutError
timed_out(sent, t) == t - sent > ClientTimeoutTotal

(* ------------------------ MultiSourceAggregator ------------------------ *)

\* a fetch_price task that has not returned yet
Pending == [kind |-> "Pending"]

\* mutant: one task without a DataPoint empties the round
gathered_all_or_nothing(res) ==
    IF \E s \in SourceNames : res[s] = [kind |-> "None"] THEN <<>>
    ELSE [i \in DOMAIN SourceOrder |-> res[SourceOrder[i]]]

\* fetch_all_sources after asyncio.gather: the DataPoints among the results,
\* in the order of self.sources
gathered(res) ==
    LET all == [i \in DOMAIN SourceOrder |-> res[SourceOrder[i]]]
    IN  SelectSeq(all, LAMBDA r: r # None /\ r # Pending)

\* get_consensus_price from the data points on: validation, then consensus
get_consensus_price(dps, t) ==
    IF dps = <<>> THEN [datapoints |-> dps, consensus |-> None]
    ELSE LET validated == [i \in DOMAIN dps |-> validate_datapoint(dps[i], t)]
         IN  [datapoints |-> validated, consensus |-> calculate_consensus(validated, t)]

\* get_consensus_price(token) is called: fetch_all_sources starts one
\* fetch_price task per source
StartRound ==
    /\ pc = "idle"
    /\ \E tok \in Tokens : token' = tok
    /\ pc' = "fetching"
    /\ started' = now
    /\ results' = [s \in SourceNames |-> Pending]
    /\ datapoints' = <<>>
    /\ consensus' = None
    /\ UNCHANGED <<now, sources, engineVars, lpVars, monVars, poolVars, roundVars>>

\* one fetch_price task runs to its end
FetchPrice ==
    /\ pc = "fetching"
    /\ \E s \in SourceNames :
        /\ results[s] = Pending
        /\ \E resp \in Responses(s, now) :
            /\ resp.kind = "raise" => sources[s].error_count < MaxErrorCount
            /\ timed_out(started, now) => resp.kind = "raise"
            /\ LET out == fetch_price(s, sources[s], token, resp, now)
               IN  /\ sources' = [sources EXCEPT ![s] = out.self]
                   /\ results' = [results EXCEPT ![s] = out.result]
    /\ UNCHANGED <<now, pc, token, started, datapoints, consensus, engineVars, lpVars, monVars, poolVars, roundVars>>

\* asyncio.gather returns; validation and consensus; the call returns
FinishRound ==
    /\ pc = "fetching"
    /\ \A s \in SourceNames : results[s] # Pending
    /\ LET out == get_consensus_price(gathered(results), now)
       IN  /\ datapoints' = out.datapoints
           /\ consensus' = out.consensus
    /\ pc' = "idle"
    /\ UNCHANGED <<now, sources, token, started, results, engineVars, lpVars, monVars, poolVars, roundVars>>

(* --------------------------- AnomalyDetector --------------------------- *)
(* The detector's ratios are Python floats compared with the literals 0.10, *)
(* 0.20 and 0.05.  On the whole-unit amounts of this model the quotient is  *)
(* the correctly rounded value of an exact fraction, and it compares with   *)
(* the literal as the fraction compares with 1/10, 1/5 and 1/20; so every   *)
(* comparison is done on the cross-multiplied integers.                     *)

Abs(x) == IF x < 0 THEN -x ELSE x

\* PriceHistory.__init__: deque(maxlen=max_size)
max_size == 100

\* PriceHistory.add
PriceHistory_add(history, price, timestamp) ==
    LET appended == Append(history, [price |-> price, timestamp |-> timestamp])
    IN  IF Len(appended) > max_size THEN Tail(appended) ELSE appended

\* AnomalyDetector.__init__ (a token without a history reads as an empty one,
\* which is what _get_history creates for it)
AnomalyDetector == [price_histories |-> [tok \in Tokens |-> <<>>], alerts |-> <<>>]

\* AnomalyDetector.check_price_volatility(token, new_price) with the default
\* threshold 0.10, at time t: the detector after the call and what it returns.
\* The last price of a history is a consensus price, hence positive.
check_price_volatility(self, tok, new_price, t) ==
    LET history == self.price_histories[tok]
        added == [self EXCEPT
                    !.price_histories[tok] = PriceHistory_add(history, new_price, t)]
    IN
    IF history = <<>> THEN [self |-> added, result |-> None]
    ELSE
    LET last_price == history[Len(history)].price
        change == Abs(new_price - last_price)
    IN
    IF change * 10 > last_price
    THEN LET alert == [type |-> "high_volatility", token |-> tok,
                       old_price |-> last_price, new_price |-> new_price,
                       change_percent |-> [num |-> change * 100, den |-> last_price],
                       threshold_percent |-> 10, timestamp |-> t,
                       severity |-> IF change * 5 < last_price
                                    THEN "warning" ELSE "critical"]
         IN  [self |-> [added EXCEPT !.alerts = Append(@, alert)], result |-> alert]
    ELSE [self |-> added, result |-> None]

\* the entries of divergent_sources: the valid points further than 5% from
\* the consensus price (a positive price)
divergent_sources(dps, consensus_price) ==
    LET far == SelectSeq(dps, LAMBDA dp :
                   dp.is_valid /\ Abs(dp.price - consensus_price) * 20 > consensus_price)
    IN  [i \in DOMAIN far |->
            [source |-> far[i].source, price |-> far[i].price,
             deviation_percent |-> [num |-> Abs(far[i].price - consensus_price) * 100,
                                    den |-> consensus_price]]]

\* AnomalyDetector.check_data_source_divergence with the default threshold 0.05
check_data_source_divergence(self, tok, dps, consensus_price, t) ==
    LET divergent == divergent_sources(dps, consensus_price) IN
    IF Len(divergent) * 3 >= Len(dps)
    THEN LET alert == [type |-> "data_divergence", token |-> tok,
                       consensus_price |-> consensus_price,
                       divergent_sources |-> divergent,
                       timestamp |-> t, severity |-> "warning"]
         IN  [self |-> [self EXCEPT !.alerts = Append(@, alert)], result |-> alert]
    ELSE [self |-> self, result |-> None]

\* mutant: a source that was never updated is measured from time 0
delay_alert_never_counts(source, max_delay, t) ==
    IF t - source.last_update > max_delay
    THEN << [type |-> "source_delay", source |-> source.name,
             delay_seconds |-> t - source.last_update,
             max_delay_seconds |-> max_delay, timestamp |-> t,
             severity |-> IF t - source.last_update < 300
                          THEN "warning" ELSE "critical"] >>
    ELSE <<>>

\* the body of check_source_delay's loop for one source: the alert it raises,
\* if any
delay_alert(source, max_delay, t) ==
    IF source.last_update = 0 THEN <<>>
    ELSE IF t - source.last_update > max_delay
    THEN << [type |-> "source_delay", source |-> source.name,
             delay_seconds |-> t - source.last_update,
             max_delay_seconds |-> max_delay, timestamp |-> t,
             severity |-> IF t - source.last_update < 300
                          THEN "warning" ELSE "critical"] >>
    ELSE <<>>

RECURSIVE delayed_sources(_, _, _)
\* check_source_delay's loop over the sources, in their order
delayed_sources(srcs, max_delay, t) ==
    IF srcs = <<>> THEN <<>>
    ELSE delay_alert(Head(srcs), max_delay, t) \o delayed_sources(Tail(srcs), max_delay, t)

\* AnomalyDetector.check_source_delay(sources, max_delay)
check_source_delay(self, srcs, max_delay, t) ==
    LET delayed == delayed_sources(srcs, max_delay, t)
    IN  [self |-> [self EXCEPT !.alerts = @ \o delayed], result |-> delayed]

\* mutant: the alert replaces the log instead of being appended to it
check_system_failure_fresh_log(self, srcs, t) ==
    LET unavailable_count == Cardinality({ i \in DOMAIN srcs : ~srcs[i].is_available })
        total_count == Len(srcs)
    IN
    IF unavailable_count * 3 >= total_count * 2
    THEN LET alert == [type |-> "system_failure",
                       unavailable_sources |-> unavailable_count,
                       total_sources |-> total_count,
                       timestamp |-> t, severity |-> "critical"]
         IN  [self |-> [self EXCEPT !.alerts = <<alert>>], result |-> alert]
    ELSE [self |-> self, result |-> None]

\* AnomalyDetector.check_system_failure(sources)
check_system_failure(self, srcs, t) ==
    LET unavailable_count == Cardinality({ i \in DOMAIN srcs : ~srcs[i].is_available })
        total_count == Len(srcs)
    IN
    IF unavailable_count * 3 >= total_count * 2
    THEN LET alert == [type |-> "system_failure",
                       unavailable_sources |-> unavailable_count,
                       total_sources |-> total_count,
                       timestamp |-> t, severity |-> "critical"]
         IN  [self |-> [self EXCEPT !.alerts = Append(@, alert)], result |-> alert]
    ELSE [self |-> self, result |-> None]

\* mutant: the cutoff taken without the current time
get_recent_alerts_no_clock(log, seconds, t) ==
    SelectSeq(log, LAMBDA a : a.timestamp >= seconds)

\* AnomalyDetector.get_recent_alerts(seconds) and
\* LPAnomalyDetector.get_recent_alerts(seconds) at time t, on the log
get_recent_alerts(log, seconds, t) ==
    SelectSeq(log, LAMBDA a : a.timestamp >= t - seconds)

\* AnomalyDetector.clear_old_alerts(max_age) at time t: the log after the call
clear_old_alerts(log, max_age, t) ==
    SelectSeq(log, LAMBDA a : a.timestamp >= t - max_age)

\* no call on the monitor yet
NoCall == [op |-> "none"]

(* -------------------------- LPAnomalyDetector -------------------------- *)

\* LPPoolHistory.__init__: three deques of value, timestamp
LPPoolHistory == [tvl_history |-> <<>>, apy_history |-> <<>>, volume_history |-> <<>>]

\* deque(maxlen=max_size).append
deque_append(d, x) ==
    IF Len(d) < max_size THEN Append(d, x) ELSE Append(Tail(d), x)

\* LPPoolHistory.add(tvl, apy, volume, timestamp)
LPPoolHistory_add(history, tvl, apy, volume, timestamp) ==
    [tvl_history |-> deque_append(history.tvl_history, [value |-> tvl, timestamp |-> timestamp]),
     apy_history |-> deque_append(history.apy_history, [value |-> apy, timestamp |-> timestamp]),
     volume_history |-> deque_append(history.volume_history, [value |-> volume, timestamp |-> timestamp])]

\* the last value of a deque, None when it is empty
last_value(d) == IF d = <<>> THEN None ELSE d[Len(d)].value

\* LPPoolHistory.get_last_values()
get_last_values(history) ==
    [tvl |-> last_value(history.tvl_history),
     apy |-> last_value(history.apy_history),
     volume |-> last_value(history.volume_history)]

\* LPAnomalyDetector.__init__: no pool seen, no alert
LPAnomalyDetector == [pool_histories |-> <<>>, alerts |-> <<>>]

\* LPAnomalyDetector._get_history(pool_id): the detector with the pool's
\* history, created empty when the pool is new
get_history(self, pool_id) ==
    IF pool_id \in DOMAIN self.pool_histories THEN self
    ELSE [self EXCEPT !.pool_histories =
            [p \in DOMAIN self.pool_histories \cup {pool_id} |->
                IF p = pool_id THEN LPPoolHistory ELSE self.pool_histories[p]]]

\* LPAnomalyDetector.check_tvl_drop(pool_id, pool_name, new_tvl, threshold = 0.20)
\* at time t, amounts in whole dollars: change_percent < -0.20 is
\* (new_tvl - last_tvl) * 5 < -last_tvl, change_percent > -0.50 is
\* (new_tvl - last_tvl) * 2 > -last_tvl
check_tvl_drop(self, pool_id, pool_name, new_tvl, t) ==
    LET got == get_history(self, pool_id)
        history == got.pool_histories[pool_id]
        last_values == get_last_values(history)
    IN
    IF history.tvl_history = <<>>
    THEN [self |-> [got EXCEPT !.pool_histories[pool_id] =
                        LPPoolHistory_add(history, new_tvl, 0, 0, t)],
          result |-> None]
    ELSE LET last_tvl == last_values.tvl
         IN  IF last_tvl > 0 /\ (new_tvl - last_tvl) * 5 < -last_tvl
             THEN LET alert == [type |-> "tvl_drop", pool_id |-> pool_id,
                                pool_name |-> pool_name,
                                old_tvl |-> last_tvl, new_tvl |-> new_tvl,
                                change_percent |->
                                    [num |-> (new_tvl - last_tvl) * 100, den |-> last_tvl],
                                threshold_percent |-> -20,
                                timestamp |-> t,
                                severity |-> IF (new_tvl - last_tvl) * 2 > -last_tvl
                                             THEN "warning" ELSE "critical"]
                  IN  [self |-> [got EXCEPT !.alerts = Append(@, alert)], result |-> alert]
             ELSE [self |-> got, result |-> None]

\* an LP detector nobody has called
InitPoolDetector ==
    /\ pool_histories = LPAnomalyDetector.pool_histories
    /\ lp_alerts = LPAnomalyDetector.alerts
    /\ pool_call = NoCall

\* DataQualityMonitor.__init__
InitDetector ==
    /\ InitPoolDetector
    /\ price_histories = AnomalyDetector.price_histories
    /\ alerts = AnomalyDetector.alerts
    /\ mon_call = NoCall

\* a monitor nobody calls
InitMonitor ==
    /\ InitDetector
    /\ mon_input = [token |-> "ETH", consensus |-> None, datapoints |-> <<>>, sources |-> <<>>]

(* ----------------- MultiSourceAggregator, concurrent callers ------------ *)

\* the callers that can each have a get_consensus_price call in progress
Callers == {1, 2}

\* a fetch_price task: not created, awaiting the provider, or returned
NoTask == [state |-> "none"]

Awaiting == [state |-> "awaiting"]

\* a caller between two calls, with what its last call returned
IdleRound(last) == [pc |-> "idle", token |-> "ETH",
                    tasks |-> [s \in SourceNames |-> NoTask], consensus |-> last]

\* what the providers do with the requests of concurrent callers: all answer
\* with a price of 100, and a request to CoinGecko can raise instead
ConcurrentResponses(name, t) ==
    { r \in Responses(name, t) :
        \/ r.kind = "raise" /\ name = "coingecko"
        \/ r.kind = "ok" /\ r.price = FP(100) /\ r.timestamp = t }

\* MultiSourceAggregator.get_data_quality_metrics()
get_data_quality_metrics(srcs) ==
    LET available_sources == Cardinality({ s \in DOMAIN srcs : srcs[s].is_available })
        total_sources == Cardinality(DOMAIN srcs)
    IN  [source_availability |-> [num |-> available_sources, den |-> total_sources],
         available_sources |-> available_sources,
         total_sources |-> total_sources,
         sources_status |->
            [s \in DOMAIN srcs |-> [available |-> srcs[s].is_available,
                                    last_update |-> srcs[s].last_update,
                                    error_count |-> srcs[s].error_count]]]

\* no caller has called, and nobody has asked for the metrics
InitRounds ==
    /\ rounds = [c \in Callers |-> IdleRound(None)]
    /\ metrics = None

\* the two aggregators as their constructors leave them
InitAggregators ==
    /\ InitRounds
    /\ sources = [s \in SourceNames |-> DataSource]
    /\ pc = "idle"
    /\ token = "ETH"
    /\ started = 0
    /\ results = [s \in SourceNames |-> None]
    /\ datapoints = <<>>
    /\ consensus = None
    /\ lp_sources = [s \in {"defillama"} |-> DataSource]
    /\ lp_datapoints = <<>>
    /\ lp_consensus = None

Init ==
    /\ InitAggregators
    /\ InitMonitor
    /\ now = 1000
    /\ engine_input = <<>>
    /\ engine_calls = <<>>
    /\ lp_input = <<>>
    /\ lp_calls = <<>>

(* ------------------- the engine called on its own ---------------------- *)

\* data points as get_consensus_price hands them over: built by a source
\* adapter at time 1000 and passed through the validator
EnginePoints ==
    { validate_datapoint(dp, 1000) :
        dp \in { DataPoint("coingecko", "ETH", FP(100), 1000),
                 DataPoint("defillama", "ETH", FP(101), 1000),
                 DataPoint("binance", "ETH", FP(10000), 1000),
                 DataPoint("defillama", "ETH", FP(101), 1000 - 61),
                 DataPoint("binance", "ETH", FP(-1), 1000) } }

ListsUpTo(S, n) == UNION { [1..k -> S] : k \in 0..n }

\* keep the last two calls
Remember(calls, call) ==
    IF Len(calls) < 2 THEN Append(calls, call) ELSE <<calls[2], call>>

CalculateConsensus ==
    /\ engine_calls' = Remember(engine_calls,
           [input |-> engine_input,
            result |-> calculate_consensus(engine_input, now)])
    /\ UNCHANGED <<now, engine_input, lp_input, lp_calls, priceVars, lpVars, monVars, poolVars, roundVars>>

\* time passes between calls; a round is over within its 10 s client timeouts,
\* less than one step of this clock
Tick ==
    /\ pc = "idle"
    /\ \E d \in TickSteps :
        /\ now + d - 1000 <= MaxElapsed
        /\ now' = now + d
    /\ UNCHANGED <<engineVars, priceVars, lpVars, monVars, poolVars, roundVars>>

InitEngine ==
    /\ InitAggregators
    /\ InitMonitor
    /\ now = 1000
    /\ engine_input \in ListsUpTo(EnginePoints, MaxPoints)
    /\ engine_calls = <<>>
    /\ lp_input = <<>>
    /\ lp_calls = <<>>

NextEngine == CalculateConsensus

SpecEngine == InitEngine /\ [][NextEngine]_vars

(* ------------------------------ LPPoolData ----------------------------- *)

LPPoolData(source, pool_address, protocol, chain, token0, token1, fee_tier, tvl, volume_24h, apy, timestamp) ==
    [source |-> source, pool_address |-> pool_address, protocol |-> protocol,
     chain |-> chain, token0 |-> token0, token1 |-> token1, fee_tier |-> fee_tier,
     tvl |-> tvl, volume_24h |-> volume_24h, apy |-> apy, timestamp |-> timestamp,
     is_valid |-> TRUE, validation_errors |-> <<>>]

\* LPDataValidator.validate_pool_data: the pool data point as it leaves the call
\* (an APY below 0 or above 10000 is only logged)
validate_pool_data(pool, current_time) ==
    IF current_time - pool.timestamp > 300
    THEN [pool EXCEPT !.is_valid = FALSE,
                      !.validation_errors = Append(@, "Data too old")]
    ELSE IF pool.tvl < 0
    THEN [pool EXCEPT !.is_valid = FALSE,
                      !.validation_errors = Append(@, "Invalid TVL (<0)")]
    ELSE IF pool.volume_24h < 0
    THEN [pool EXCEPT !.is_valid = FALSE,
                      !.validation_errors = Append(@, "Invalid volume (<0)")]
    ELSE pool

(* -------------------------- LPConsensusEngine -------------------------- *)

\* [x for x in values if x > 0]
Positive(values) == SelectSeq(values, LAMBDA x: x > 0)

\* mutant: the identifying fields taken from the last valid point
LPConsensusEngine_first_valid_last(vp) == vp[Len(vp)]

\* first_valid = valid_points[0]
LPConsensusEngine_first_valid(vp) == vp[1]

\* LPConsensusEngine.calculate_consensus, called at time t
LPConsensusEngine_calculate_consensus(pool_datapoints, t) ==
    IF pool_datapoints = <<>> THEN None
    ELSE
    LET vp == SelectSeq(pool_datapoints, LAMBDA p: p.is_valid) IN
    IF Len(vp) < 1 THEN None
    ELSE
    LET tvls == Positive([i \in 1..Len(vp) |-> vp[i].tvl])
        apys == Positive([i \in 1..Len(vp) |-> vp[i].apy])
        volumes == Positive([i \in 1..Len(vp) |-> vp[i].volume_24h])
        first_valid == LPConsensusEngine_first_valid(vp)
    IN  [pool_address |-> first_valid.pool_address,
         protocol |-> first_valid.protocol,
         chain |-> first_valid.chain,
         token0 |-> first_valid.token0,
         token1 |-> first_valid.token1,
         fee_tier |-> first_valid.fee_tier,
         tvl |-> IF tvls # <<>> THEN median(tvls) ELSE 0,
         apy |-> IF apys # <<>> THEN median(apys) ELSE 0,
         volume_24h |-> IF volumes # <<>> THEN median(volumes) ELSE 0,
         data_points |-> Len(vp),
         sources |-> [i \in 1..Len(vp) |-> vp[i].source],
         tvl_std_dev |-> IF Len(tvls) > 1 THEN stdev(tvls) ELSE ZeroDev,
         apy_std_dev |-> IF Len(apys) > 1 THEN stdev(apys) ELSE ZeroDev,
         timestamp |-> t]

(* ------------- an engine called again on the same data points ---------- *)

\* price data points of one round, as the validator leaves them
RepeatPoints ==
    { validate_datapoint(dp, 1000) :
        dp \in { DataPoint("coingecko", "ETH", FP(100), 1000),
                 DataPoint("defillama", "ETH", FP(101), 1000),
                 DataPoint("binance", "ETH", FP(10000), 1000),
                 DataPoint("binance", "ETH", FP(-1), 1000) } }

\* pool data points of one round for one pool, as the three LP sources build
\* them (DefiLlama: no fee tier; Uniswap V3: fee tier and its own protocol
\* name; GeckoTerminal: no APY) and as the validator leaves them
LPRepeatPoints ==
    { validate_pool_data(p, 1000) :
        p \in { LPPoolData("defillama", "pool-1", "uniswap-v3", "Ethereum", "USDC", "WETH",
                           0, FP(1000), 0, FP(12), 1000),
                LPPoolData("uniswap_v3", "0xpool", "uniswap_v3", "ethereum", "USDC", "WETH",
                           4, FP(1100), FP(50), FP(8), 1000),
                LPPoolData("geckoterminal", "0xpool", "uniswap_v3", "eth", "USDC", "WETH",
                           0, FP(5000), FP(60), 0, 1000),
                LPPoolData("geckoterminal", "0xpool", "uniswap_v3", "eth", "USDC", "WETH",
                           0, FP(-1), FP(60), 0, 1000) } }

\* s with its entries i and i + 1 exchanged
SwapAt(s, i) == [s EXCEPT ![i] = s[i + 1], ![i + 1] = s[i]]

LPCalculateConsensus ==
    /\ lp_calls' = Remember(lp_calls,
           [input |-> lp_input,
            result |-> LPConsensusEngine_calculate_consensus(lp_input, now)])
    /\ UNCHANGED <<now, engine_input, engine_calls, lp_input, priceVars, lpVars, monVars, poolVars, roundVars>>

\* between its first and its second call the caller hands the same data
\* points over in another order (one exchange of neighbours: these generate
\* every permutation)
Reorder ==
    /\ Len(engine_calls) = 1
    /\ engine_input = engine_calls[1].input
    /\ \E i \in 1..(Len(engine_input) - 1) :
        engine_input' = SwapAt(engine_input, i)
    /\ UNCHANGED <<now, engine_calls, lp_input, lp_calls, priceVars, lpVars, monVars, poolVars, roundVars>>

LPReorder ==
    /\ Len(lp_calls) = 1
    /\ lp_input = lp_calls[1].input
    /\ \E i \in 1..(Len(lp_input) - 1) :
        lp_input' = SwapAt(lp_input, i)
    /\ UNCHANGED <<now, engine_input, engine_calls, lp_calls, priceVars, lpVars, monVars, poolVars, roundVars>>

InitRepeat ==
    /\ InitAggregators
    /\ InitMonitor
    /\ now = 1000
    /\ engine_calls = <<>>
    /\ lp_calls = <<>>
    /\ \/ /\ engine_input \in ListsUpTo(RepeatPoints, MaxRepeatPoints)
          /\ lp_input = <<>>
       \/ /\ engine_input = <<>>
          /\ lp_input \in ListsUpTo(LPRepeatPoints, MaxRepeatPoints)

NextRepeat ==
    \/ CalculateConsensus
    \/ LPCalculateConsensus
    \/ Reorder
    \/ LPReorder
    \/ Tick

SpecRepeat == InitRepeat /\ [][NextRepeat]_vars

(* ------------------------- LPPairDataAggregator ------------------------ *)

\* What DefiLlama's chart endpoint does with one request:
\*   "ok"      status 200 and a non-empty data list; the latest entry carries
\*             tvlUsd and apy (a missing one reads as 0) and no project, chain
\*             or symbol
\*   "status"  a status other than 200
\*   "empty"   status 200 but no data
\*   "raise"   the request or the JSON decoding raises
\*   "garbled" status 200 and data, but float() raises on tvlUsd or apy
LPResponses ==
    { [kind |-> "ok", tvlUsd |-> tvl, apy |-> apy] :
        tvl \in {FP(1000), 0, FP(-1)}, apy \in {FP(12), 0, FP(-5)} }
    \cup { [kind |-> k] : k \in {"status", "empty", "raise", "garbled"} }

\* DefiLlamaPoolSource.fetch_pool_data at time t: the source's state after the
\* call and what the call returns
fetch_pool_data(self, pool_id, resp, t) ==
    IF resp.kind = "raise" THEN [self |-> count_error(self), result |-> None]
    ELSE IF resp.kind \in {"status", "empty"} THEN [self |-> self, result |-> None]
    ELSE IF resp.kind = "garbled"
    THEN [self |-> count_error(mark_success(self, t)), result |-> None]
    ELSE [self |-> mark_success(self, t),
          result |-> LPPoolData("defillama", pool_id, "unknown", "unknown",
                                "unknown", "unknown", 0, resp.tvlUsd, 0, resp.apy, t)]

\* LPPairDataAggregator.fetch_all_sources: a task for the one registered
\* source (DefiLlama) only when a pool_id is given ("" stands for a pool_id
\* that is None or empty); the LPPoolData among the results
LP_fetch_all_sources(self, pool_id, resp, t) ==
    IF pool_id = "" THEN [self |-> self, datapoints |-> <<>>]
    ELSE LET out == fetch_pool_data(self, pool_id, resp, t)
         IN  [self |-> out.self,
              datapoints |-> IF out.result = None THEN <<>> ELSE <<out.result>>]

\* get_consensus_pool_data from the data points on: validation, then consensus
get_consensus_pool_data(dps, t) ==
    IF dps = <<>> THEN [datapoints |-> dps, consensus |-> None]
    ELSE LET validated == [i \in DOMAIN dps |-> validate_pool_data(dps[i], t)]
         IN  [datapoints |-> validated,
              consensus |-> LPConsensusEngine_calculate_consensus(validated, t)]

\* one call of LPPairDataAggregator.get_consensus_pool_data
GetConsensusPoolData ==
    /\ \E pool_id \in {"pool-1", ""}, resp \in LPResponses :
        /\ resp.kind = "raise" => lp_sources["defillama"].error_count < MaxErrorCount
        /\ LET fetched == LP_fetch_all_sources(lp_sources["defillama"], pool_id, resp, now)
               out == get_consensus_pool_data(fetched.datapoints, now)
           IN  /\ lp_sources' = [lp_sources EXCEPT !["defillama"] = fetched.self]
               /\ lp_datapoints' = out.datapoints
               /\ lp_consensus' = out.consensus
    /\ UNCHANGED <<now, engineVars, priceVars, monVars, poolVars, roundVars>>

\* DefiLlamaPoolSource.search_pools at time t, the source's state after the
\* call: with status 200 and a pool list that parses, last_update and
\* is_available are set (error_count is left as it is); an exception (from the
\* request, the JSON decoding or float() on a pool's tvlUsd or apy, all before
\* those assignments) only adds 1 to error_count
search_pools(self, resp, t) ==
    IF resp.kind \in {"raise", "garbled"}
    THEN [self EXCEPT !.error_count = self.error_count + 1]
    ELSE IF resp.kind = "ok"
    THEN [self EXCEPT !.last_update = t, !.is_available = TRUE]
    ELSE self

\* one call of LPPairDataAggregator.search_best_pools: search_pools on the one
\* registered source; the pools it returns are validated, filtered and
\* sorted into the returned list, which is no state of the aggregator
SearchBestPools ==
    /\ \E k \in {"ok", "status", "raise", "garbled"} :
        /\ k \in {"raise", "garbled"} =>
                lp_sources["defillama"].error_count < MaxErrorCount
        /\ lp_sources' = [lp_sources EXCEPT
                !["defillama"] = search_pools(lp_sources["defillama"], [kind |-> k], now)]
    /\ UNCHANGED <<now, lp_datapoints, lp_consensus, engineVars, priceVars, monVars, poolVars, roundVars>>

NextLP ==
    \/ GetConsensusPoolData
    \/ SearchBestPools
    \/ Tick

SpecLP == Init /\ [][NextLP]_vars

(* ------------------------- the price aggregator ------------------------ *)

\* the clock while requests are in flight: steps that reach and pass the
\* client timeout
WaitSteps == {ClientTimeoutTotal, ClientTimeoutTotal + 1}

\* time passes inside fetch_all_sources, while asyncio.gather awaits the tasks
Wait ==
    /\ pc = "fetching"
    /\ \E d \in WaitSteps :
        /\ now + d - 1000 <= MaxWait
        /\ now' = now + d
    /\ UNCHANGED <<engineVars, priceVars, lpVars, monVars, poolVars, roundVars>>

NextDeadline ==
    \/ StartRound
    \/ FetchPrice
    \/ FinishRound
    \/ Wait

SpecDeadline == Init /\ [][NextDeadline]_vars

Next ==
    \/ StartRound
    \/ FetchPrice
    \/ FinishRound
    \/ Tick

Spec == Init /\ [][Next]_vars

(* ------------------------- DataQualityMonitor -------------------------- *)

(* --------------------------- DataQualityCalculator --------------------- *)

\* scores are exact fractions num/den, den > 0, in lowest terms
RECURSIVE GCD(_, _)
GCD(a, b) == IF b = 0 THEN a ELSE GCD(b, a % b)

Frac(n, d) ==
    LET g == GCD(Abs(n), d)
    IN  [num |-> n \div g, den |-> d \div g]

FracAdd(x, y) == Frac(x.num * y.den + y.num * x.den, x.den * y.den)

FracMul(x, y) == Frac(x.num * y.num, x.den * y.den)

FracLeq(x, y) == x.num * y.den <= y.num * x.den

FracMax(x, y) == IF FracLeq(x, y) THEN y ELSE x

FracMin(x, y) == IF FracLeq(x, y) THEN x ELSE y

\* the root of a square number
Root(n) == CHOOSE r \in 0..n : r * r = n

\* a std_dev, kept as the variance it is the root of, as the fraction it is:
\* the dispersions handed to the monitor are squares of fractions
Deviation(std_dev) == Frac(Root(std_dev.num), Root(std_dev.den))

\* an amount in eighths as a fraction of whole units
Amount(x) == Frac(x, 8)

\* round(x, 3) as the number of thousandths nearest to x, ties to the even one
round(x, ndigits) ==
    LET scale == IF ndigits = 3 THEN 1000 ELSE 1
        n == x.num * scale
        q == n \div x.den
        r == n % x.den
    IN  IF 2 * r > x.den \/ (2 * r = x.den /\ q % 2 = 1) THEN q + 1 ELSE q

\* mutant: the decay runs to 360 s instead of 300 s
calculate_freshness_slow_decay(timestamp, t) ==
    LET age == t - timestamp
    IN  IF age <= 60 THEN Frac(1, 1)
        ELSE IF age <= 300 THEN FracMax(Frac(0, 1), FracAdd(Frac(1, 1), Frac(-(age - 60), 300)))
        ELSE Frac(0, 1)

\* DataQualityCalculator.calculate_freshness(timestamp) at time t
calculate_freshness(timestamp, t) ==
    LET age == t - timestamp
    IN  IF age <= 60 THEN Frac(1, 1)
        ELSE IF age <= 300 THEN FracMax(Frac(0, 1), FracAdd(Frac(1, 1), Frac(-(age - 60), 240)))
        ELSE Frac(0, 1)

\* DataQualityCalculator.calculate_source_availability(available, total)
calculate_source_availability(available, total) ==
    IF total = 0 THEN Frac(0, 1) ELSE Frac(available, total)

\* DataQualityCalculator.calculate_consistency(std_dev, price):
\* cv / 0.01 is 100 * std_dev / price
calculate_consistency(std_dev, price) ==
    IF price = 0 THEN Frac(0, 1)
    ELSE LET dev == Deviation(std_dev)
             pr == Amount(price)
             coefficient_of_variation == Frac(dev.num * pr.den, dev.den * pr.num)
             consistency == FracMax(Frac(0, 1),
                                FracAdd(Frac(1, 1),
                                        FracMul(Frac(-100, 1), coefficient_of_variation)))
         IN  FracMin(Frac(1, 1), consistency)

\* mutant: the weights 0.4, 0.4, 0.3
calculate_overall_quality_heavy(freshness, availability, consistency) ==
    FracAdd(FracAdd(FracMul(freshness, Frac(4, 10)), FracMul(availability, Frac(4, 10))),
            FracMul(consistency, Frac(3, 10)))

\* DataQualityCalculator.calculate_overall_quality: weights 0.4, 0.3, 0.3
calculate_overall_quality(freshness, availability, consistency) ==
    FracAdd(FracAdd(FracMul(freshness, Frac(4, 10)), FracMul(availability, Frac(3, 10))),
            FracMul(consistency, Frac(3, 10)))

\* DataQualityMonitor.monitor_consensus(token, consensus, datapoints, sources)
\* at time t: the four checks in the code's order, the four scores, and the
\* report it returns
monitor_consensus(self, tok, cons, dps, srcs, t) ==
    LET volatility == check_price_volatility(self, tok, cons.price, t)
        divergence == check_data_source_divergence(volatility.self, tok, dps, cons.price, t)
        delays == check_source_delay(divergence.self, srcs, 120, t)
        system_failure == check_system_failure(delays.self, srcs, t)
        freshness == calculate_freshness(cons.timestamp, t)
        available_sources == Cardinality({ i \in DOMAIN srcs : srcs[i].is_available })
        availability == calculate_source_availability(available_sources, Len(srcs))
        consistency == calculate_consistency(cons.std_dev, cons.price)
        overall_quality == calculate_overall_quality(freshness, availability, consistency)
    IN  [self |-> system_failure.self,
         result |->
            [token |-> tok, consensus_price |-> cons.price,
             quality_metrics |->
                [freshness |-> round(freshness, 3),
                 availability |-> round(availability, 3),
                 consistency |-> round(consistency, 3),
                 overall_quality |-> round(overall_quality, 3)],
             alerts |-> [volatility |-> volatility.result,
                         divergence |-> divergence.result,
                         delays |-> delays.result,
                         system_failure |-> system_failure.result],
             data_sources |->
                [total |-> Len(srcs),
                 available |-> available_sources,
                 data_points |-> cons.data_points],
             timestamp |-> t]]

\* the detector as the variables hold it
Detector == [price_histories |-> price_histories, alerts |-> alerts]

\* a call returns: the detector's new state and the record of the call
Returned(out, call) ==
    /\ price_histories' = out.self.price_histories
    /\ alerts' = out.self.alerts
    /\ mon_call' = [call EXCEPT !.result = out.result]

CheckPriceVolatility ==
    /\ Len(alerts) < MaxAlerts
    /\ \E tok \in Tokens, new_price \in {FP(100), FP(110), FP(120), FP(121)} :
        /\ Len(price_histories[tok]) < MaxHistory
        /\ Returned(check_price_volatility(Detector, tok, new_price, now),
                    [op |-> "check_price_volatility", token |-> tok,
                     new_price |-> new_price, time |-> now, before |-> Len(alerts), result |-> None])
    /\ UNCHANGED <<now, mon_input, engineVars, priceVars, lpVars, poolVars, roundVars>>

CheckDataSourceDivergence ==
    /\ Len(alerts) < MaxAlerts
    /\ Returned(check_data_source_divergence(Detector, mon_input.token,
                    mon_input.datapoints, mon_input.consensus.price, now),
                [op |-> "check_data_source_divergence", time |-> now,
                 before |-> Len(alerts), result |-> None])
    /\ UNCHANGED <<now, mon_input, engineVars, priceVars, lpVars, poolVars, roundVars>>

CheckSourceDelay ==
    /\ Len(alerts) < MaxAlerts
    /\ Returned(check_source_delay(Detector, mon_input.sources, 120, now),
                [op |-> "check_source_delay", max_delay |-> 120, time |-> now,
                 before |-> Len(alerts), result |-> None])
    /\ UNCHANGED <<now, mon_input, engineVars, priceVars, lpVars, poolVars, roundVars>>

CheckSystemFailure ==
    /\ Len(alerts) < MaxAlerts
    /\ Returned(check_system_failure(Detector, mon_input.sources, now),
                [op |-> "check_system_failure", time |-> now, before |-> Len(alerts), result |-> None])
    /\ UNCHANGED <<now, mon_input, engineVars, priceVars, lpVars, poolVars, roundVars>>

MonitorConsensus ==
    /\ Len(alerts) < MaxAlerts
    /\ Len(price_histories[mon_input.token]) < MaxHistory
    /\ Returned(monitor_consensus(Detector, mon_input.token, mon_input.consensus,
                    mon_input.datapoints, mon_input.sources, now),
                [op |-> "monitor_consensus", time |-> now, before |-> Len(alerts), result |-> None])
    /\ UNCHANGED <<now, mon_input, engineVars, priceVars, lpVars, poolVars, roundVars>>

\* the names of the sources handed to the monitor, by position
MonSourceOrder == <<"coingecko", "defillama", "binance", "backup", "mirror">>

\* source states around the delay thresholds at time t: updated 120 s, 121 s,
\* 250 s and 400 s ago, and never updated (having failed three times)
MonSourceStates(t) ==
    { [last_update |-> t - 120, is_available |-> TRUE, error_count |-> 0],
      [last_update |-> t - 121, is_available |-> TRUE, error_count |-> 0],
      [last_update |-> t - 250, is_available |-> FALSE, error_count |-> 3],
      [last_update |-> t - 400, is_available |-> FALSE, error_count |-> 3],
      [last_update |-> 0, is_available |-> FALSE, error_count |-> 3] }

\* lists of sources: one state per name, the names in MonSourceOrder
MonSourceLists(t) ==
    { [i \in DOMAIN f |-> [name |-> MonSourceOrder[i],
                       last_update |-> f[i].last_update,
                       is_available |-> f[i].is_available,
                       error_count |-> f[i].error_count]] :
        f \in UNION { [1..k -> MonSourceStates(t)] : k \in 0..MaxMonList } }

\* validated data points around the 5% divergence threshold of a consensus
\* price of 100: at it, 5% and 6% above it, and a stale point 6% above it
MonPoints(t) ==
    { validate_datapoint(dp, t) :
        dp \in { DataPoint("coingecko", "ETH", FP(100), t),
                 DataPoint("defillama", "ETH", FP(105), t),
                 DataPoint("binance", "ETH", FP(106), t),
                 DataPoint("defillama", "ETH", FP(106), t - 61) } }

\* a consensus dict as a caller hands it to the monitor
MonConsensus(dps, t) ==
    [price |-> FP(100), std_dev |-> ZeroDev, data_points |-> NumValid(dps),
     filtered_points |-> NumValid(dps), timestamp |-> t]

\* the arguments of the monitor: either the sources vary, next to three
\* agreeing data points, or the data points vary, next to three fresh sources
MonInputs(t) ==
    LET agreeing == [i \in 1..3 |-> DataPoint(SourceOrder[i], "ETH", FP(100), t)]
        fresh == [i \in 1..3 |-> [name |-> SourceOrder[i], last_update |-> t,
                                  is_available |-> TRUE, error_count |-> 0]]
    IN  { [token |-> "ETH", consensus |-> MonConsensus(agreeing, t),
           datapoints |-> agreeing, sources |-> srcs] : srcs \in MonSourceLists(t) }
        \cup
        { [token |-> "ETH", consensus |-> MonConsensus(dps, t),
           datapoints |-> dps, sources |-> fresh] :
                dps \in ListsUpTo(MonPoints(t), MaxMonList) }

InitChecks ==
    /\ InitAggregators
    /\ InitDetector
    /\ now = 1000
    /\ engine_input = <<>>
    /\ engine_calls = <<>>
    /\ lp_input = <<>>
    /\ lp_calls = <<>>
    /\ mon_input \in MonInputs(1000)

NextChecks ==
    \/ CheckDataSourceDivergence
    \/ CheckSourceDelay
    \/ CheckSystemFailure
    \/ MonitorConsensus

SpecChecks == InitChecks /\ [][NextChecks]_vars

NextVolatility == CheckPriceVolatility

SpecVolatility == Init /\ [][NextVolatility]_vars

(* ---------------------------- quality report --------------------------- *)

\* ages of a consensus result around the two ends of the decay of its
\* freshness, 60 s and 300 s
QualityAges == {0, 60, 61, 180, 299, 300, 301}

\* dispersions of a consensus price of 100: none, 0.25, 0.5, 1 and 2
QualityDevs ==
    { ZeroDev, [num |-> 1, den |-> 16], [num |-> 1, den |-> 4],
      [num |-> 1, den |-> 1], [num |-> 4, den |-> 1] }

\* lists of up to three sources updated at time t, each available or not
QualitySources(t) ==
    { [i \in DOMAIN f |-> [name |-> SourceOrder[i], last_update |-> t,
                           is_available |-> f[i],
                           error_count |-> IF f[i] THEN 0 ELSE 3]] :
        f \in UNION { [1..k -> BOOLEAN] : k \in 0..3 } }

\* the arguments of the monitor: a consensus of three agreeing points, its age
\* and dispersion and the sources varying
QualityInputs(t) ==
    LET agreeing == [i \in 1..3 |-> DataPoint(SourceOrder[i], "ETH", FP(100), t)]
    IN  { [token |-> "ETH",
           consensus |-> [price |-> FP(100), std_dev |-> dev, data_points |-> 3,
                          filtered_points |-> 3, timestamp |-> t - age],
           datapoints |-> agreeing, sources |-> srcs] :
            age \in QualityAges, dev \in QualityDevs, srcs \in QualitySources(t) }

InitQuality ==
    /\ InitAggregators
    /\ InitDetector
    /\ now = 1000
    /\ engine_input = <<>>
    /\ engine_calls = <<>>
    /\ lp_input = <<>>
    /\ lp_calls = <<>>
    /\ mon_input \in QualityInputs(1000)

NextQuality == MonitorConsensus

SpecQuality == InitQuality /\ [][NextQuality]_vars

(* --------------------------- concurrent rounds ------------------------- *)

\* a caller calls get_consensus_price(token) while another call may be in
\* progress: fetch_all_sources creates one fetch_price task per source
ConcurrentStartRound ==
    /\ \E c \in Callers, tok \in Tokens :
        /\ rounds[c].pc = "idle"
        /\ rounds' = [rounds EXCEPT ![c] =
                        [pc |-> "fetching", token |-> tok,
                         tasks |-> [s \in SourceNames |-> Awaiting],
                         consensus |-> None]]
    /\ UNCHANGED <<now, metrics, engineVars, priceVars, lpVars, monVars, poolVars>>

\* the event loop resumes one fetch_price task after its last await, and the
\* task runs to its end on the source as it is now
ConcurrentFetchPrice ==
    /\ \E c \in Callers, s \in SourceNames :
        /\ rounds[c].pc = "fetching"
        /\ rounds[c].tasks[s] = Awaiting
        /\ \E resp \in ConcurrentResponses(s, now) :
            /\ resp.kind = "raise" => sources[s].error_count < MaxErrorCount
            /\ LET out == fetch_price(s, sources[s], rounds[c].token, resp, now)
               IN  /\ sources' = [sources EXCEPT ![s] = out.self]
                   /\ rounds' = [rounds EXCEPT ![c].tasks[s] =
                                    [state |-> "returned",
                                     kind |-> IF rounds[c].token \in token_map(s)
                                              THEN resp.kind ELSE "unmapped",
                                     result |-> out.result]]
    /\ UNCHANGED <<now, metrics, pc, token, started, results, datapoints, consensus, engineVars, lpVars, monVars, poolVars>>

\* asyncio.gather of one caller returns; validation and consensus; the call returns
ConcurrentFinishRound ==
    /\ \E c \in Callers :
        /\ rounds[c].pc = "fetching"
        /\ \A s \in SourceNames : rounds[c].tasks[s].state = "returned"
        /\ LET res == [s \in SourceNames |-> rounds[c].tasks[s].result]
               out == get_consensus_price(gathered(res), now)
           IN  rounds' = [rounds EXCEPT ![c] = IdleRound(out.consensus)]
    /\ UNCHANGED <<now, metrics, engineVars, priceVars, lpVars, monVars, poolVars>>

\* get_data_quality_metrics is called, between any two steps of the tasks
GetDataQualityMetrics ==
    /\ metrics' = get_data_quality_metrics(sources)
    /\ UNCHANGED <<now, rounds, engineVars, priceVars, lpVars, monVars, poolVars>>

NextRounds ==
    \/ ConcurrentStartRound
    \/ ConcurrentFetchPrice
    \/ ConcurrentFinishRound
    \/ GetDataQualityMetrics

SpecRounds == Init /\ [][NextRounds]_vars

(* --------------------------- LP pool detector -------------------------- *)

\* the pools the LP detector is asked about: address and name
Pools == { [pool_id |-> "0xa", pool_name |-> "ETH/USDC"],
           [pool_id |-> "0xb", pool_name |-> "WBTC/ETH"] }

\* TVLs around the thresholds of a drop from 1000: none, 20%, 21%, 50%, 60%,
\* and an empty pool
TVLs == {1000, 800, 790, 500, 400, 0}

CheckTvlDrop ==
    /\ Len(lp_alerts) < MaxAlerts
    /\ \E pool \in Pools, new_tvl \in TVLs :
        LET out == check_tvl_drop([pool_histories |-> pool_histories, alerts |-> lp_alerts],
                                  pool.pool_id, pool.pool_name, new_tvl, now)
        IN  /\ pool_histories' = out.self.pool_histories
            /\ lp_alerts' = out.self.alerts
            /\ pool_call' = [op |-> "check_tvl_drop", pool_id |-> pool.pool_id,
                             new_tvl |-> new_tvl, time |-> now,
                             before |-> Len(lp_alerts), result |-> out.result]
    /\ UNCHANGED <<now, engineVars, priceVars, lpVars, monVars, roundVars>>

NextPool == CheckTvlDrop

SpecPool == Init /\ [][NextPool]_vars

(* ------------------------------ alert log ------------------------------ *)

\* clear_old_alerts: max_age = 3600
max_age == 3600

\* the windows a caller asks for: the default of 300 s, one second more, and
\* one beyond the retention of the log
Windows == {300, 301, 2 * max_age}

GetRecentAlerts ==
    /\ \E seconds \in Windows :
        mon_call' = [op |-> "get_recent_alerts", seconds |-> seconds, time |-> now,
                     before |-> Len(alerts),
                     result |-> get_recent_alerts(alerts, seconds, now)]
    /\ UNCHANGED <<now, price_histories, alerts, mon_input, engineVars, priceVars, lpVars, poolVars, roundVars>>

ClearOldAlerts ==
    /\ alerts' = clear_old_alerts(alerts, max_age, now)
    /\ mon_call' = [op |-> "clear_old_alerts", max_age |-> max_age, time |-> now,
                    before |-> Len(alerts), result |-> None]
    /\ UNCHANGED <<now, price_histories, mon_input, engineVars, priceVars, lpVars, poolVars, roundVars>>

\* the clock between calls on the detector: steps that reach a window of
\* 300 s exactly and, with one more, pass the retention of 3600 s
LogTickSteps == {300, 3301}

LogTick ==
    /\ \E d \in LogTickSteps :
        /\ now + d - 1000 <= MaxLogElapsed
        /\ now' = now + d
    /\ UNCHANGED <<engineVars, priceVars, lpVars, monVars, poolVars, roundVars>>

\* a monitor whose three sources were updated at time t, two of them
\* unavailable since
FailingInput(t) ==
    [token |-> "ETH",
     consensus |-> MonConsensus(<<>>, t),
     datapoints |-> <<>>,
     sources |-> [i \in 1..3 |-> [name |-> SourceOrder[i], last_update |-> t,
                                  is_available |-> (i = 1),
                                  error_count |-> IF i = 1 THEN 0 ELSE 3]]]

InitLog ==
    /\ InitAggregators
    /\ InitDetector
    /\ now = 1000
    /\ engine_input = <<>>
    /\ engine_calls = <<>>
    /\ lp_input = <<>>
    /\ lp_calls = <<>>
    /\ mon_input = FailingInput(1000)

NextLog ==
    \/ CheckSystemFailure
    \/ CheckSourceDelay
    \/ GetRecentAlerts
    \/ ClearOldAlerts
    \/ LogTick

SpecLog == InitLog /\ [][NextLog]_vars

(* --------------------- properties of the price engine ------------------ *)

Last(s) == s[Len(s)]

SetMin(S) == CHOOSE x \in S : \A y \in S : x <= y

SetMax(S) == CHOOSE x \in S : \A y \in S : x >= y

\* the prices of the points of a list that carry is_valid = True, in list order
ValidPricesOf(input) ==
    LET vp == SelectSeq(input, LAMBDA dp: dp.is_valid)
    IN  [i \in 1..Len(vp) |-> vp[i].price]

\* P[k] is an extreme outlier (at least 10x above, or 10x below) and all the
\* other prices of P lie within 5 % of one another
OneOutlierAt(P, k) ==
    LET others == { P[i] : i \in (DOMAIN P) \ {k} }
    IN  /\ Len(P) >= 3
        /\ SetMin(others) > 0
        /\ 100 * SetMax(others) <= 105 * SetMin(others)
        /\ \/ P[k] >= 10 * SetMax(others)
           \/ 10 * P[k] <= SetMin(others)

\* C3: with at least 3 valid prices, all but one in a tight cluster and one
\* extreme outlier, the returned price lies within [min, max] of the cluster.
C3_EstimateWithinCluster ==
    \A c \in 1..Len(engine_calls) :
        LET P == ValidPricesOf(engine_calls[c].input)
            r == engine_calls[c].result
        IN  \A k \in DOMAIN P :
                OneOutlierAt(P, k) =>
                    LET others == { P[i] : i \in (DOMAIN P) \ {k} }
                    IN  /\ r # None
                        /\ SetMin(others) <= r.price
                        /\ r.price <= SetMax(others)

\* a call on a cluster plus one outlier in which the IQR step dropped a point
C3_Witness ==
    /\ engine_calls # <<>>
    /\ LET P == ValidPricesOf(Last(engine_calls).input)
           r == Last(engine_calls).result
       IN  /\ \E k \in DOMAIN P : OneOutlierAt(P, k)
           /\ r # None
           /\ r.filtered_points < r.data_points

\* the round of the scenario: exactly the valid prices 100, 101 and 10000
IsScenario100_101_10000(input) ==
    LET P == ValidPricesOf(input)
    IN  /\ Len(P) = 3
        /\ Len(input) = 3
        /\ { P[i] : i \in DOMAIN P } = {FP(100), FP(101), FP(10000)}

\* C4 (as claimed): for the valid prices {100, 101, 10000} the IQR step drops
\* 10000, the estimate is 100.5 and the post-filter count is 2.
C4_OutlierDropped ==
    \A c \in 1..Len(engine_calls) :
        IsScenario100_101_10000(engine_calls[c].input) =>
            /\ engine_calls[c].result # None
            /\ 2 * engine_calls[c].result.price = FP(100) + FP(101)
            /\ engine_calls[c].result.filtered_points = 2

\* C4 (amended): for the valid prices {100, 101, 10000} the IQR step drops
\* nothing (Q1 = 100, Q3 = 10000); the estimate is the median of all three,
\* 101, and the post-filter count is 3.
C4_NothingDropped ==
    \A c \in 1..Len(engine_calls) :
        IsScenario100_101_10000(engine_calls[c].input) =>
            /\ engine_calls[c].result # None
            /\ engine_calls[c].result.price = FP(101)
            /\ engine_calls[c].result.filtered_points = 3
            /\ engine_calls[c].result.data_points = 3

C4_Witness ==
    /\ engine_calls # <<>>
    /\ IsScenario100_101_10000(Last(engine_calls).input)
    /\ Last(engine_calls).result # None

\* C5: with exactly 2 valid points no filtering is applied (filtered_points =
\* data_points = 2) and the estimate is the arithmetic mean of the two prices.
C5_TwoPointsMean ==
    \A c \in 1..Len(engine_calls) :
        LET P == ValidPricesOf(engine_calls[c].input)
            r == engine_calls[c].result
        IN  Len(P) = 2 =>
                /\ r # None
                /\ r.data_points = 2
                /\ r.filtered_points = 2
                /\ 2 * r.price = P[1] + P[2]

\* a call on two valid prices that lie far apart (100 and 10000)
C5_Witness ==
    /\ engine_calls # <<>>
    /\ LET P == ValidPricesOf(Last(engine_calls).input)
       IN  /\ Len(P) = 2
           /\ {P[1], P[2]} = {FP(100), FP(10000)}
           /\ Last(engine_calls).result # None

\* the prices the estimate has to be computed from: with fewer than 3 valid
\* prices all of them; otherwise those within [Q1 - 1.5 IQR, Q3 + 1.5 IQR],
\* unless fewer than 2 are, and then all of them
KeptPrices(P) ==
    IF Len(P) < 3 THEN P
    ELSE
    LET q == quantiles(P)
        lo2 == 2 * q[1] - 3 * (q[3] - q[1])
        hi2 == 2 * q[3] + 3 * (q[3] - q[1])
        inside == SelectSeq(P, LAMBDA p: lo2 <= 2 * p /\ 2 * p <= hi2)
    IN  IF Len(inside) < 2 THEN P ELSE inside

\* C6: every returned result satisfies 2 <= filtered_points <= data_points,
\* counts the in-bounds prices (or all of them when fewer than 2 are in
\* bounds), and its estimate is the median of exactly that set.
C6_FilterNeverZeroes ==
    \A c \in 1..Len(engine_calls) :
        LET P == ValidPricesOf(engine_calls[c].input)
            r == engine_calls[c].result
        IN  r # None =>
                /\ 2 <= r.filtered_points
                /\ r.filtered_points <= r.data_points
                /\ r.data_points = Len(P)
                /\ r.filtered_points = Len(KeptPrices(P))
                /\ LET K == Sorted(KeptPrices(P))
                       n == Len(K)
                   IN  IF n % 2 = 1
                       THEN r.price = K[(n + 1) \div 2]
                       ELSE 2 * r.price = K[n \div 2] + K[(n \div 2) + 1]

\* a returned result from which the IQR step dropped at least one price
C6_Witness ==
    /\ engine_calls # <<>>
    /\ Last(engine_calls).result # None
    /\ Last(engine_calls).result.filtered_points < Last(engine_calls).result.data_points
    /\ Last(engine_calls).result.filtered_points >= 2

(* ------------------ properties of repeated engine calls ---------------- *)

Count(s, x) == Cardinality({ i \in DOMAIN s : s[i] = x })

\* a and b hold the same elements, each as often
IsPermutation(a, b) ==
    /\ Len(a) = Len(b)
    /\ \A i \in DOMAIN a : Count(a, a[i]) = Count(b, a[i])

\* C8 (as claimed): two calls of calculate_consensus on the same unchanged
\* list, the second at any later moment, give results identical in every field.
C8_Identical ==
    (Len(engine_calls) = 2 /\ engine_calls[1].input = engine_calls[2].input)
        => engine_calls[1].result = engine_calls[2].result

\* C8 (amended): the two results are identical in every field except
\* timestamp, which is the time of each call (so never decreases).
C8_IdenticalButTimestamp ==
    (Len(engine_calls) = 2 /\ engine_calls[1].input = engine_calls[2].input)
        => LET r1 == engine_calls[1].result
               r2 == engine_calls[2].result
           IN  \/ r1 = None /\ r2 = None
               \/ /\ r1 # None
                  /\ r2 # None
                  /\ r1.timestamp <= r2.timestamp
                  /\ [r2 EXCEPT !.timestamp = r1.timestamp] = r1

\* the same list, with a result, handed over twice, the second time later
C8_Witness ==
    /\ Len(engine_calls) = 2
    /\ engine_calls[1].input = engine_calls[2].input
    /\ engine_calls[1].result # None
    /\ engine_calls[2].result # None
    /\ engine_calls[1].result.timestamp < engine_calls[2].result.timestamp

\* the fields of an LP result that are taken from one data point
LPIdentity(r) ==
    <<r.pool_address, r.protocol, r.chain, r.token0, r.token1, r.fee_tier>>

\* C9 (as claimed): for both engines any permutation of the same data points
\* gives the same result: estimates, dispersion, counts and the descriptive
\* fields (the source ids, here compared regardless of their order; the LP
\* result's pool_address, protocol, chain, token0, token1, fee_tier).
C9_OrderIrrelevant ==
    /\ (Len(engine_calls) = 2
            /\ IsPermutation(engine_calls[1].input, engine_calls[2].input))
        => LET r1 == engine_calls[1].result
               r2 == engine_calls[2].result
           IN  \/ r1 = None /\ r2 = None
               \/ /\ r1 # None
                  /\ r2 # None
                  /\ IsPermutation(r1.sources, r2.sources)
                  /\ [r2 EXCEPT !.timestamp = r1.timestamp, !.sources = r1.sources] = r1
    /\ (Len(lp_calls) = 2 /\ IsPermutation(lp_calls[1].input, lp_calls[2].input))
        => LET r1 == lp_calls[1].result
               r2 == lp_calls[2].result
           IN  \/ r1 = None /\ r2 = None
               \/ /\ r1 # None
                  /\ r2 # None
                  /\ IsPermutation(r1.sources, r2.sources)
                  /\ [r2 EXCEPT !.timestamp = r1.timestamp, !.sources = r1.sources] = r1

\* C9 (amended): for both engines any permutation of the same data points
\* gives the same estimates, dispersion and counts and the same source ids;
\* the sources list follows the input order, and the LP result's pool_address,
\* protocol, chain, token0, token1 and fee_tier are those of the first valid
\* point in input order.
C9_NumbersOrderFree ==
    /\ (Len(engine_calls) = 2
            /\ IsPermutation(engine_calls[1].input, engine_calls[2].input))
        => LET r1 == engine_calls[1].result
               r2 == engine_calls[2].result
           IN  \/ r1 = None /\ r2 = None
               \/ /\ r1 # None
                  /\ r2 # None
                  /\ r1.price = r2.price
                  /\ r1.std_dev = r2.std_dev
                  /\ r1.data_points = r2.data_points
                  /\ r1.filtered_points = r2.filtered_points
                  /\ IsPermutation(r1.sources, r2.sources)
    /\ (Len(lp_calls) = 2 /\ IsPermutation(lp_calls[1].input, lp_calls[2].input))
        => LET r1 == lp_calls[1].result
               r2 == lp_calls[2].result
           IN  \/ r1 = None /\ r2 = None
               \/ /\ r1 # None
                  /\ r2 # None
                  /\ r1.tvl = r2.tvl
                  /\ r1.apy = r2.apy
                  /\ r1.volume_24h = r2.volume_24h
                  /\ r1.tvl_std_dev = r2.tvl_std_dev
                  /\ r1.apy_std_dev = r2.apy_std_dev
                  /\ r1.data_points = r2.data_points
                  /\ IsPermutation(r1.sources, r2.sources)
    /\ \A c \in 1..Len(lp_calls) :
        lp_calls[c].result # None =>
            LET first == CHOOSE i \in DOMAIN lp_calls[c].input :
                             /\ lp_calls[c].input[i].is_valid
                             /\ \A j \in 1..(i - 1) : ~lp_calls[c].input[j].is_valid
            IN  LPIdentity(lp_calls[c].result) = LPIdentity(lp_calls[c].input[first])

\* the LP engine called on two orders of the same valid points, with results
\* that agree on the numbers and differ in the identifying fields
C9_Witness ==
    /\ Len(lp_calls) = 2
    /\ lp_calls[1].input # lp_calls[2].input
    /\ IsPermutation(lp_calls[1].input, lp_calls[2].input)
    /\ lp_calls[1].result # None
    /\ lp_calls[2].result # None
    /\ lp_calls[1].result.tvl = lp_calls[2].result.tvl
    /\ lp_calls[1].result.data_points >= 2
    /\ LPIdentity(lp_calls[1].result) # LPIdentity(lp_calls[2].result)

(* -------------------- properties of the price aggregator --------------- *)

\* C1: with fewer than 2 valid points in the round (an empty round included)
\* get_consensus_price returns None; every result it returns was computed
\* from at least 2 valid points and says so in data_points.
C1_UnavailableBelowTwo ==
    pc = "idle" =>
        /\ NumValid(datapoints) < 2 => consensus = None
        /\ consensus # None =>
            /\ consensus.data_points >= 2
            /\ consensus.data_points = NumValid(datapoints)

\* a completed round that brought two or more points of which one is valid
C1_Witness ==
    /\ pc = "idle"
    /\ Len(datapoints) >= 2
    /\ NumValid(datapoints) = 1
    /\ consensus = None

\* a fetch_price task of source s returns in this step
Returns(s) == results[s] = Pending /\ results'[s] # Pending

\* C10: a source is unavailable only with error_count >= 3; a successful
\* fetch sets error_count = 0, is_available = True and last_update = now (so
\* the first success makes an unavailable source available again);
\* error_count rises by one at a time, only in a fetch that fails, and only
\* such a step makes a source unavailable.
C10_SourceHealth ==
    /\ [](\A s \in SourceNames :
            ~sources[s].is_available => sources[s].error_count >= 3)
    /\ [][\A s \in SourceNames :
            /\ (Returns(s) /\ results'[s] # None) =>
                    sources'[s] = [last_update |-> now, is_available |-> TRUE,
                                   error_count |-> 0]
            /\ sources'[s].error_count > sources[s].error_count =>
                    /\ sources'[s].error_count = sources[s].error_count + 1
                    /\ Returns(s)
                    /\ results'[s] = None
            /\ (sources[s].is_available /\ ~sources'[s].is_available) =>
                    /\ sources'[s].error_count = sources[s].error_count + 1
                    /\ sources'[s].error_count >= 3
            /\ ~Returns(s) => sources'[s] = sources[s]
       ]_vars

\* a source that succeeded once and has since failed its way to unavailable,
\* while another source of the same round has just succeeded
C10_Witness ==
    \E s, o \in SourceNames :
        /\ ~sources[s].is_available
        /\ sources[s].error_count >= 3
        /\ sources[s].last_update > 0
        /\ o # s
        /\ pc = "fetching"
        /\ results[o] \notin {None, Pending}
        /\ sources[o] = [last_update |-> now, is_available |-> TRUE, error_count |-> 0]

(* ---------------------- properties of the LP aggregator ---------------- *)

\* C2 (as claimed): get_consensus_pool_data delivers a consensus only when
\* at least 2 valid pool data points exist in the round.
C2_PoolNeedsTwo ==
    lp_consensus # None => NumValid(lp_datapoints) >= 2

\* C7 (as claimed): a delivered pool result carries no substituted value: its
\* TVL was supplied by a valid point of the round with a usable (positive)
\* TVL, and is not 0.
C7_NoSubstitutedValue ==
    lp_consensus # None =>
        /\ \E i \in DOMAIN lp_datapoints :
            lp_datapoints[i].is_valid /\ lp_datapoints[i].tvl > 0
        /\ lp_consensus.tvl # 0

(* ------------------- properties of the fetch round --------------------- *)

\* C11 (as claimed): every fetch attempt of a source adapter that fails
\* (the task returns None although the source knows the token), whatever the
\* kind of failure, adds 1 to the source's error_count, and the source is
\* unavailable once the count has reached the threshold of 3.
C11_EveryFailureCounts ==
    [][\A s \in SourceNames :
        (Returns(s) /\ results'[s] = None /\ token \in token_map(s)) =>
            /\ sources'[s].error_count = sources[s].error_count + 1
            /\ sources'[s].error_count >= 3 => ~sources'[s].is_available
      ]_vars

\* the source of a data point list, in SourceOrder, restricted to the tasks
\* that returned a DataPoint
Succeeded(res) ==
    SelectSeq(SourceOrder, LAMBDA s : res[s] \notin {None, Pending})

\* what the source adapter put into a data point
Fetched(dp) == <<dp.source, dp.token, dp.price, dp.timestamp>>

\* C12: a round completes whatever subset of its fetch tasks fails, and brings
\* exactly the data points of the tasks that succeeded, one per such source,
\* in the order of the sources; the pool aggregator's fetch_all_sources
\* likewise returns the one point of a successful fetch and the empty list
\* for a fetch that fails in any way.
C12_FailuresDoNotAbortRound ==
    /\ (pc = "fetching" /\ \A s \in SourceNames : results[s] # Pending) =>
            ENABLED FinishRound
    /\ (pc = "idle" /\ \A s \in SourceNames : results[s] # Pending) =>
            /\ Len(datapoints) = Len(Succeeded(results))
            /\ \A i \in DOMAIN datapoints :
                Fetched(datapoints[i]) = Fetched(results[Succeeded(results)[i]])
    /\ \A resp \in LPResponses :
            LET out == LP_fetch_all_sources(lp_sources["defillama"], "pool-1", resp, now)
            IN  IF resp.kind = "ok"
                THEN /\ Len(out.datapoints) = 1
                     /\ out.datapoints[1].tvl = resp.tvlUsd
                     /\ out.datapoints[1].apy = resp.apy
                ELSE out.datapoints = <<>>

\* a completed round in which one task raised (its error was counted), one
\* returned None without raising and the third brought the only data point
C12_Witness ==
    /\ pc = "idle"
    /\ Len(datapoints) = 1
    /\ \E s, o \in SourceNames :
        /\ s # o
        /\ results[s] = None /\ sources[s].error_count = 1 /\ sources[s].last_update = 0
        /\ results[o] = None /\ sources[o].error_count = 0
        /\ \A r \in SourceNames \ {s, o} :
            results[r] \notin {None, Pending} /\ datapoints[1].source = r

ProbePrices == {FP(-1), -1, 0, 1, FP(100), FP(1000000), FP(1000000) + 1, FP(1000001)}

ProbeAges == {0, 59, 60, 61, 600}

\* C14: validate_datapoint marks a point invalid exactly when it is older than
\* 60 s or its price is <= 0 (a price above 1000000 alone does not), gives every
\* invalid point a reason and changes nothing else of it; in a round every
\* fetched point, valid or not, stays in the list of data points.
C14_ValidatorMarksAndKeeps ==
    /\ [](\A p \in ProbePrices, age \in ProbeAges :
            LET dp == DataPoint("binance", "ETH", p, now - age)
                v  == validate_datapoint(dp, now)
            IN  /\ v.is_valid <=> ~(age > 60 \/ p <= 0)
                /\ ~v.is_valid => Len(v.validation_errors) >= 1
                /\ v.is_valid => v.validation_errors = <<>>
                /\ Fetched(v) = Fetched(dp))
    /\ [][(pc = "fetching" /\ pc' = "idle") =>
            /\ Len(datapoints') = Len(Succeeded(results))
            /\ \A i \in DOMAIN datapoints' :
                LET dp == datapoints'[i]
                IN  /\ Fetched(dp) = Fetched(results[Succeeded(results)[i]])
                    /\ dp.is_valid <=> ~(now - dp.timestamp > 60 \/ dp.price <= 0)
                    /\ ~dp.is_valid => Len(dp.validation_errors) >= 1
         ]_vars

\* a completed round whose list keeps a point marked too old and a point
\* marked for its price, each with its reason
C14_Witness ==
    /\ pc = "idle"
    /\ \E i, j \in DOMAIN datapoints :
        /\ ~datapoints[i].is_valid
        /\ datapoints[i].validation_errors = <<"Timestamp too old">>
        /\ ~datapoints[j].is_valid
        /\ datapoints[j].validation_errors = <<"Invalid price (<=0)">>
        /\ datapoints[j].price <= 0

\* C15 (as claimed): validate_pool_data accepts a pool data point only if its
\* TVL is positive and its APY is not negative: a point of the round whose TVL
\* is <= 0 or whose APY is < 0 is marked invalid, with a reason, and is not
\* among the points the consensus counts.
C15_PoolValueMustBePositive ==
    \A i \in DOMAIN lp_datapoints :
        (lp_datapoints[i].tvl <= 0 \/ lp_datapoints[i].apy < 0) =>
            /\ ~lp_datapoints[i].is_valid
            /\ Len(lp_datapoints[i].validation_errors) >= 1
            /\ lp_consensus = None

(* ---------------------- properties of the detector --------------------- *)

\* the alerts the last call on the monitor appended to the log
Appended == SubSeq(alerts, mon_call.before + 1, Len(alerts))

\* C16 (as claimed): check_price_volatility raises no alert on the first
\* observation of a token or when the relative change from the last stored
\* price is not above 10%, a warning when it is above 10% but not above 20%,
\* and a critical alert when it is above 20%.
C16_VolatilitySeverity ==
    mon_call.op = "check_price_volatility" =>
        LET history == price_histories[mon_call.token]
            r == mon_call.result
        IN  IF Len(history) < 2 THEN r = None
            ELSE LET old == history[Len(history) - 1].price
                     change == Abs(mon_call.new_price - old)
                 IN  /\ change * 10 <= old => r = None
                     /\ (change * 10 > old /\ change * 5 <= old) =>
                            r # None /\ r.severity = "warning"
                     /\ change * 5 > old =>
                            r # None /\ r.severity = "critical"

\* the valid points of a list that lie further than 5% from the price
NumDivergent(dps, price) ==
    Cardinality({ i \in DOMAIN dps :
        dps[i].is_valid /\ Abs(dps[i].price - price) * 20 > price })

\* C17 (as claimed): with at least one contributing (valid) data point,
\* check_data_source_divergence raises an alert, of severity warning, exactly
\* when the valid points deviating by more than 5% from the consensus price
\* are at least one third of the valid points.
C17_DivergenceThird ==
    (mon_call.op = "check_data_source_divergence" /\ NumValid(mon_input.datapoints) >= 1) =>
        LET r == mon_call.result
            divergent == NumDivergent(mon_input.datapoints, mon_input.consensus.price)
        IN  /\ r # None <=> divergent * 3 >= NumValid(mon_input.datapoints)
            /\ r # None => r.severity = "warning" /\ r.type = "data_divergence"

\* the delay alerts a check_source_delay result holds for the source name
DelayAlertsFor(result, name) == SelectSeq(result, LAMBDA a : a.source = name)

\* C18 (as claimed): for a source with a recorded last success,
\* check_source_delay raises no alert while its age is <= max_delay, a warning
\* once the age exceeds max_delay and a critical alert once it exceeds
\* 2 x max_delay.
C18_DelaySeverity ==
    mon_call.op = "check_source_delay" =>
        \A i \in DOMAIN mon_input.sources :
            LET source == mon_input.sources[i]
                age == mon_call.time - source.last_update
                raised == DelayAlertsFor(mon_call.result, source.name)
            IN  source.last_update # 0 =>
                    /\ age <= mon_call.max_delay => raised = <<>>
                    /\ age > mon_call.max_delay =>
                            /\ Len(raised) = 1
                            /\ raised[1].severity =
                                    IF age > 2 * mon_call.max_delay
                                    THEN "critical" ELSE "warning"

\* C19 (as claimed): check_source_delay raises a delay alert for every source
\* whose time since its last success exceeds max_delay, a source that never
\* had a successful fetch included.
C19_EverySourceChecked ==
    mon_call.op = "check_source_delay" =>
        \A i \in DOMAIN mon_input.sources :
            LET source == mon_input.sources[i]
            IN  (source.last_update = 0
                    \/ mon_call.time - source.last_update > mon_call.max_delay) =>
                        Len(DelayAlertsFor(mon_call.result, source.name)) = 1

\* C19 (amended): check_source_delay goes through every source handed to it
\* and raises one delay alert, in the order of the sources, for each source
\* with a recorded last update (last_update # 0) that is older than max_delay;
\* a source that was never updated (last_update = 0) is skipped and gets none.
C19_EveryUpdatedSourceChecked ==
    mon_call.op = "check_source_delay" =>
        LET late == SelectSeq(mon_input.sources, LAMBDA source :
                        /\ source.last_update # 0
                        /\ mon_call.time - source.last_update > mon_call.max_delay)
        IN  /\ Len(mon_call.result) = Len(late)
            /\ \A i \in DOMAIN late :
                /\ mon_call.result[i].type = "source_delay"
                /\ mon_call.result[i].source = late[i].name
                /\ mon_call.result[i].delay_seconds = mon_call.time - late[i].last_update
            /\ Appended = mon_call.result

\* a check over a source that is late, a source that is in time and a source
\* that was never updated: one alert, for the late one
C19_Witness ==
    /\ mon_call.op = "check_source_delay"
    /\ Len(mon_call.result) = 1
    /\ \E i, j, k \in DOMAIN mon_input.sources :
        /\ mon_input.sources[i].last_update = 0
        /\ mon_input.sources[j].last_update = mon_call.time - 120
        /\ mon_input.sources[k].last_update = mon_call.time - 121
        /\ mon_call.result[1].source = mon_input.sources[k].name

\* the sources of the monitor's input that are unavailable
NumUnavailable == Cardinality({ i \in DOMAIN mon_input.sources :
                                    ~mon_input.sources[i].is_available })

\* the system_failure alerts among the alerts the last call appended
SystemFailuresAppended == SelectSeq(Appended, LAMBDA a : a.type = "system_failure")

\* C20 (as claimed): on one or more registered sources check_system_failure
\* raises a system_failure alert, always critical, exactly when the
\* unavailable sources are strictly more than two thirds of the sources; a call (on its own or inside monitor_consensus)
\* appends exactly one such alert when that holds and none when it does not.
C20_SystemFailureAboveTwoThirds ==
    LET failing == NumUnavailable * 3 > Len(mon_input.sources) * 2 IN
    Len(mon_input.sources) >= 1 =>
    /\ mon_call.op = "check_system_failure" =>
        /\ mon_call.result # None <=> failing
        /\ mon_call.result # None =>
                mon_call.result.severity = "critical" /\ Appended = <<mon_call.result>>
        /\ mon_call.result = None => Appended = <<>>
    /\ mon_call.op = "monitor_consensus" =>
        /\ Len(SystemFailuresAppended) = IF failing THEN 1 ELSE 0
        /\ \A i \in DOMAIN SystemFailuresAppended :
                SystemFailuresAppended[i].severity = "critical"

(* --------------------- properties of the provenance -------------------- *)

\* the sources of the valid points of a list whose price the IQR step kept
ContributingSources(input) ==
    LET vp == SelectSeq(input, LAMBDA dp: dp.is_valid)
        K == KeptPrices(ValidPricesOf(input))
    IN  { vp[i].source : i \in { j \in DOMAIN vp : \E k \in DOMAIN K : K[k] = vp[j].price } }

\* C28 (as claimed): in every result data_points is the number of valid points
\* before outlier filtering, filtered_points the number of points the estimate
\* was computed from, and sources names exactly the sources whose points
\* contributed to the estimate.
C28_ProvenanceMatches ==
    \A c \in 1..Len(engine_calls) :
        LET input == engine_calls[c].input
            r == engine_calls[c].result
        IN  r # None =>
                /\ r.data_points = NumValid(input)
                /\ r.filtered_points = Len(KeptPrices(ValidPricesOf(input)))
                /\ { r.sources[i] : i \in DOMAIN r.sources } = ContributingSources(input)

(* ------------------- properties of the LP source health ---------------- *)

\* C29 (as claimed): whatever sequence of fetch_pool_data and search_pools
\* calls the LP source has served, it is unavailable exactly when its
\* error_count is at least 3.
C29_LPSourceHealth ==
    \A s \in DOMAIN lp_sources :
        ~lp_sources[s].is_available <=> lp_sources[s].error_count >= 3


\* the steps that are a call of one of the detector's checks
CheckOps ==
    {"check_price_volatility", "check_data_source_divergence", "check_source_delay",
     "check_system_failure", "monitor_consensus"}

\* s is the beginning of t
IsPrefix(s, t) == Len(s) <= Len(t) /\ SubSeq(t, 1, Len(s)) = s

\* s is t with some elements left out, the others in their order
RECURSIVE IsSubSeq(_, _)
IsSubSeq(s, t) ==
    IF s = <<>> THEN TRUE
    ELSE IF t = <<>> THEN FALSE
    ELSE IF Head(s) = Head(t) THEN IsSubSeq(Tail(s), Tail(t))
    ELSE IsSubSeq(s, Tail(t))

\* C21 as stated: a query returns exactly the logged alerts whose timestamp is
\* newer than now - window, in append order
C21_RecentAlertsStrictlyNewer ==
    mon_call.op = "get_recent_alerts" /\ mon_call.time = now =>
        mon_call.result =
            SelectSeq(alerts, LAMBDA a : a.timestamp > mon_call.time - mon_call.seconds)

\* C21, amended: a query returns exactly the logged alerts whose timestamp is at
\* least now - window (an alert exactly window seconds old is included), in
\* append order; a larger window returns all that a smaller one returns; the
\* query leaves the log as it was
C21_RecentAlerts ==
    /\ [](/\ mon_call.op = "get_recent_alerts" /\ mon_call.time = now =>
                /\ mon_call.result =
                      SelectSeq(alerts, LAMBDA a : a.timestamp >= mon_call.time - mon_call.seconds)
                /\ IsSubSeq(mon_call.result, alerts)
          /\ \A w1, w2 \in Windows :
                w1 <= w2 => IsSubSeq(get_recent_alerts(alerts, w1, now),
                                     get_recent_alerts(alerts, w2, now)))
    /\ [][mon_call'.op = "get_recent_alerts" => alerts' = alerts]_vars

\* a query has returned an alert that is exactly as old as its window, and
\* left out an older one
C21_Witness ==
    /\ mon_call.op = "get_recent_alerts"
    /\ mon_call.time = now
    /\ \E i \in DOMAIN mon_call.result :
            mon_call.result[i].timestamp = mon_call.time - mon_call.seconds
    /\ Len(mon_call.result) < Len(alerts)

\* C22: after any detection round or query, the log holds no alert older than
\* the retention window, and no query returns one, whatever its window
C22_LogPrunedByAge ==
    mon_call.op \in CheckOps \cup {"get_recent_alerts"} =>
        /\ \A i \in DOMAIN alerts : alerts[i].timestamp >= mon_call.time - max_age
        /\ mon_call.op = "get_recent_alerts" =>
                \A i \in DOMAIN mon_call.result :
                    mon_call.result[i].timestamp >= mon_call.time - max_age

\* C27: a check leaves every alert already in the log unchanged and in place,
\* and leaves the consensus result, the data points and the sources it was
\* given unchanged
C27_ChecksOnlyAppend ==
    [][mon_call'.op \in CheckOps =>
            /\ IsPrefix(alerts, alerts')
            /\ mon_input' = mon_input]_vars

\* monitor_consensus has added alerts behind the ones the log already held
C27_Witness ==
    /\ mon_call.op = "monitor_consensus"
    /\ mon_call.before >= 1
    /\ Len(alerts) >= mon_call.before + 2


\* the ages the freshness score is checked on
FreshnessAges == 0..400

\* the freshness of a result that is age seconds old
FreshnessAt(age) == calculate_freshness(1000 - age, 1000)

\* C23: freshness is 1.0 for every age <= 60 s, 0.0 for every age >= 300 s, and
\* in between decays linearly from 1 to 0 and never increases with the age; the
\* report of a consensus result carries that score
C23_Freshness ==
    /\ \A age \in FreshnessAges :
            /\ age <= 60 => FreshnessAt(age) = Frac(1, 1)
            /\ age >= 300 => FreshnessAt(age) = Frac(0, 1)
            /\ 60 < age /\ age < 300 => FreshnessAt(age) = Frac(300 - age, 240)
            /\ FracLeq(FreshnessAt(age + 1), FreshnessAt(age))
    /\ mon_call.op = "monitor_consensus" =>
            LET age == mon_call.time - mon_input.consensus.timestamp
                reported == mon_call.result.quality_metrics.freshness
            IN  /\ age <= 60 => reported = 1000
                /\ age >= 300 => reported = 0
                /\ 60 < age /\ age < 300 => reported = round(Frac(300 - age, 240), 3)

\* a report on a result half way down the decay
C23_Witness ==
    /\ mon_call.op = "monitor_consensus"
    /\ mon_call.time - mon_input.consensus.timestamp = 180
    /\ mon_call.result.quality_metrics.freshness = 500

\* C24: the overall quality reported for a consensus result is
\* 0.4 freshness + 0.3 availability + 0.3 consistency and lies in [0,1], with
\* availability = available/total (0 when there is no source) and
\* consistency = 1 - (stdev/estimate)/0.01 clamped to [0,1]
C24_OverallQuality ==
    mon_call.op = "monitor_consensus" =>
        LET cons == mon_input.consensus
            srcs == mon_input.sources
            total == Len(srcs)
            available == Cardinality({ i \in DOMAIN srcs : srcs[i].is_available })
            f == calculate_freshness(cons.timestamp, mon_call.time)
            a == IF total = 0 THEN Frac(0, 1) ELSE Frac(available, total)
            raw == FracAdd(Frac(1, 1),
                           Frac(-100 * 8 * Deviation(cons.std_dev).num,
                                Deviation(cons.std_dev).den * cons.price))
            c == IF FracLeq(raw, Frac(0, 1)) THEN Frac(0, 1)
                 ELSE IF FracLeq(Frac(1, 1), raw) THEN Frac(1, 1) ELSE raw
            overall == Frac(4 * f.num * a.den * c.den + 3 * a.num * f.den * c.den
                                + 3 * c.num * f.den * a.den,
                            10 * f.den * a.den * c.den)
            reported == mon_call.result.quality_metrics
        IN  /\ reported.availability = round(a, 3)
            /\ reported.consistency = round(c, 3)
            /\ reported.overall_quality = round(overall, 3)
            /\ FracLeq(Frac(0, 1), overall) /\ FracLeq(overall, Frac(1, 1))
            /\ reported.overall_quality \in 0..1000

\* a report made without any source, on a result with half the allowed
\* dispersion
C24_Witness ==
    /\ mon_call.op = "monitor_consensus"
    /\ mon_input.sources = <<>>
    /\ mon_call.result.quality_metrics.availability = 0
    /\ mon_call.result.quality_metrics.consistency = 500
    /\ mon_call.result.quality_metrics.overall_quality = 550


\* C30: after every call check_tvl_drop(pool, v), alert or not, the pool's last
\* stored TVL is v
C30_LastTvlIsLatest ==
    pool_call.op = "check_tvl_drop" =>
        get_last_values(pool_histories[pool_call.pool_id]).tvl = pool_call.new_tvl


\* C25: two get_consensus_price rounds for the same token never overlap
C25_SameTokenRoundsSerialized ==
    \A c1, c2 \in Callers :
        c1 # c2 /\ rounds[c1].pc = "fetching" /\ rounds[c2].pc = "fetching"
            => rounds[c1].token # rounds[c2].token


\* the fetch_price task of caller c on source s returns in this step
TaskReturns(c, s) ==
    /\ rounds[c].pc = "fetching"
    /\ rounds[c].tasks[s] = Awaiting
    /\ rounds'[c].pc = "fetching"
    /\ rounds'[c].tasks[s].state = "returned"

\* a health triple that no half-done update can have left behind
WholeTriple(available, last_update, error_count) ==
    /\ available <=> error_count < 3
    /\ last_update \in {0, now}

====
